---- MODULE Spec2Model ----
(***************************************************************************)
(* Model of the lark job layer: the lazy `queues` proxy and initQueues     *)
(* (packages/lark-jobs/src/index.ts), the Bull consumer callback attached  *)
(* by initQueues, and Job.dispatch / Job.dispatchNow / Job.getOptions /    *)
(* Job.delay (packages/lark-jobs/src/Job.ts, packages/quirk/src/Job.ts);   *)
(* and of the lark CLI entry file (packages/lark/src/index.ts): command    *)
(* discovery, the binding loop and the action of the invoked command.      *)
(***************************************************************************)
EXTENDS Integers, Sequences, FiniteSets, TLC

\* ------------------------------------------------------------------ bounds
MaxLookups == 2
MaxInitCalls == 1
MaxStackDepth == 3
MaxDispatches == 1
MaxDelay == 1
MaxAttempts == 1
MaxNowCalls == 1
MaxArrivals == 2
MaxSets == 1
MaxJobAdds == 2

\* -------------------------------------------------------------- vocabulary
QueueNames == {"default", "emails"}

\* JavaScript's undefined, as a value.
Undefined == "undefined"

\* What a read of queues[prop] gives: a handle (its index in `handles`),
\* undefined, or a thrown RangeError (the call stack ran out).
ValHandle(h) == [kind |-> "handle", h |-> h]
ValUndefined == [kind |-> "undefined", h |-> 0]
ValRangeError == [kind |-> "RangeError", h |-> 0]
ValTypeError == [kind |-> "TypeError", h |-> 0]

\* The job classes of the repository's apps, by file.
\*   1: ExampleJob of the lark-jobs app (handle throws its payload)
\*   2: ExampleJob of the quirk app (handle throws new Error(payload))
\*   3: a documented job whose handle returns a boolean
ClassIds == {1, 2, 3}

ClassName(c) == IF c = 3 THEN "SendEmailJob" ELSE "ExampleJob"

\* The package whose Job base class the class extends.
ClassPkg(c) == IF c = 2 THEN "quirk" ELSE "lark-jobs"

JobNames == {ClassName(c) : c \in ClassIds}

\* The classes defined by the files of Config.data.jobs.dir.
JobFiles == {1}

\* Config.data.jobs.queues: absent, or a list of distinct names.
QueueLists == {<<>>, <<"default">>, <<"default", "emails">>}

\* What a file of the jobs directory that fails to load may throw: an
\* Error, or a value with no message property to read.
FileThrows == {"none", "Error", Undefined}

\* Config.data, with its jobs section present (configureQueue reads
\* Config.data.jobs.options unguarded), and the jobs directory it names.
\* optAttempts is jobs.options.attempts, 0 when it is not set. dirReadable:
\* readdirSync can list the directory. fileThrows: what the last file of a
\* readable directory throws as it is loaded.
Configs ==
  {c \in [hasQueues : BOOLEAN, queues : QueueLists, dirReadable : BOOLEAN,
          fileThrows : FileThrows, optAttempts : {0, 1}] :
     /\ c.hasQueues \/ c.queues = <<>>
     /\ c.dirReadable \/ c.fileThrows = "none"}

\* Payloads as the consumer sees them after the JSON round trip.
Payloads == {Undefined, "string"}

\* What a handle may throw or reject with.
ThrownValues == {"Error", "string", "emptyString", "null", Undefined}

\* What a handle may resolve to.
ReturnValues == {"true", "false", Undefined}

\* JavaScript truthiness of a thrown value.
Truthy(v) == v \in {"Error", "string"}

\* done() called with no argument.
NoArg == "<none>"

VARIABLES
  cfg,            \* Config.data (read-only after Config.load)
  ConfigJobs,     \* Config.jobs: class name -> class
  isInitialized,  \* index.ts: let isInitialized
  queueMap,       \* index.ts: const queueMap, queue name -> handle
  handles,        \* every Queue constructed, in construction order
  loadJobsCalls,  \* invocations of loadJobs
  lookups,        \* property reads on the `queues` proxy so far
  initCalls,      \* direct initQueues() calls so far
  lastLookup,     \* the latest proxy read: property and outcome
  jobInst,        \* the producer's job instance (cls 0: not constructed)
  dispatches,     \* every job.dispatch call, in call order
  nowCalls,       \* every job.dispatchNow call, in call order
  msgs,           \* the transport's messages, in submission order
  loadLog,        \* loadJobs' error log lines so far; did the latest call throw
  ConfigCommands, \* Config.commands of the CLI process: key -> class
  cli,            \* the CLI process: its boot, its bindings, its invocation
  sets,           \* every assignment queues[prop] = value made from outside
  jobAdd          \* the jobs directory's files and every run of job:add's handle

vars ==
  <<cfg, ConfigJobs, isInitialized, queueMap, handles, loadJobsCalls,
    lookups, initCalls, lastLookup, dispatches, msgs, jobInst, nowCalls,
    ConfigCommands, cli, loadLog, sets, jobAdd>>

cliVars == <<ConfigCommands, cli, jobAdd>>

queueVars ==
  <<ConfigJobs, isInitialized, queueMap, loadJobsCalls, lookups, initCalls,
    lastLookup, loadLog, sets>>

\* ------------------------------------------------------------- queue layer
\* The module-level state initQueues and the proxy traps work on.
QState ==
  [init |-> isInitialized, map |-> queueMap, hs |-> handles,
   reg |-> ConfigJobs, loads |-> loadJobsCalls, log |-> loadLog]

\* A register that leaves a name that is already taken alone.
registerKeepFirst(reg, c) ==
  [n \in DOMAIN reg \cup {ClassName(c)} |->
     IF n \in DOMAIN reg THEN reg[n] ELSE c]

\* A register that drops every other entry.
registerClears(reg, c) == [n \in {ClassName(c)} |-> c]

\* Job.register(job): Config.jobs[job.name] = job
register(reg, c) ==
  [n \in DOMAIN reg \cup {ClassName(c)} |->
     IF n = ClassName(c) THEN c ELSE reg[n]]

RECURSIVE registerAll(_, _)
registerAll(reg, cs) ==
  IF cs = {} THEN reg
  ELSE LET c == CHOOSE x \in cs : \A y \in cs : x <= y
       IN registerAll(register(reg, c), cs \ {c})

\* require(file) runs a file's module code the first time it is required
\* and answers from the module cache afterwards; a module that threw while
\* loading is not cached and runs again.
FilesExecute(s) == s.loads = 0 \/ cfg.fileThrows # "none"

\* A loadJobs whose catch block logs whatever was thrown.
loadJobsLogAll(s) ==
  IF ~cfg.dirReadable
  THEN [s EXCEPT !.loads = @ + 1,
                 !.log = [errors |-> @.errors + 1, threw |-> FALSE]]
  ELSE LET s1 == [s EXCEPT !.reg = IF FilesExecute(s)
                                  THEN registerAll(s.reg, JobFiles)
                                  ELSE s.reg,
                           !.loads = @ + 1]
       IN IF cfg.fileThrows = "none"
          THEN [s1 EXCEPT !.log.threw = FALSE]
          ELSE [s1 EXCEPT !.log = [errors |-> @.errors + 1, threw |-> FALSE]]

\* loadJobs(): requires every file of the jobs directory, each registering
\* its class. A throw, of readdirSync (an Error) or of a file, ends the
\* loop and the catch block logs error.message, itself a TypeError when
\* the value thrown is undefined; that one leaves loadJobs.
\* (Config.data.jobs being present, the guard of line 32 passes.)
loadJobs(s) ==
  IF ~cfg.dirReadable
  THEN [s EXCEPT !.loads = @ + 1,
                 !.log = [errors |-> @.errors + 1, threw |-> FALSE]]
  ELSE LET s1 == [s EXCEPT !.reg = IF FilesExecute(s)
                                  THEN registerAll(s.reg, JobFiles)
                                  ELSE s.reg,
                           !.loads = @ + 1]
       IN IF cfg.fileThrows = "none"
          THEN [s1 EXCEPT !.log.threw = FALSE]
          ELSE IF cfg.fileThrows = Undefined
          THEN [s1 EXCEPT !.log.threw = TRUE]
          ELSE [s1 EXCEPT !.log = [errors |-> @.errors + 1, threw |-> FALSE]]

\* defaultJobOptions.attempts of every handle:
\* Config.data.jobs.options?.attempts || 2
QueueDefaultAttempts == 2

\* A default that ignores the configured options.
defaultAttemptsFixed == QueueDefaultAttempts

defaultAttempts ==
  IF cfg.optAttempts # 0 THEN cfg.optAttempts ELSE QueueDefaultAttempts

\* new Queue(queueName, {redis, defaultJobOptions}): a fresh handle. shared
\* tells the handles initQueues puts in the cache from the ad-hoc ones.
NewQueue(name, shared) ==
  [name |-> name, shared |-> shared, consumers |-> 0, closed |-> FALSE,
   attempts |-> defaultAttempts]

\* A configureQueue that attaches a consumer to the handle it returns.
configureQueueConsuming(queueName) ==
  [NewQueue(queueName, FALSE) EXCEPT !.consumers = 1]

\* configureQueue(queueName): an ad-hoc handle, not put in the cache.
configureQueue(queueName) == NewQueue(queueName, FALSE)

\* What a caller may assign to a property of `queues`: a Bull Queue it
\* constructed, or something else.
SetValues == {"Queue", "object", "string", "null", Undefined}

\* A value as the set trap sees it: what it is, and for a Queue instance
\* its place in hs (0 for a value that is no handle).
SetValue(v, h) == [kind |-> v, h |-> IF v = "Queue" THEN h ELSE 0]

\* A set trap without the instanceof check.
proxySetUnchecked(s, prop, value) ==
  [st |-> [s EXCEPT !.map = [n \in DOMAIN @ \cup {prop} |->
                               IF n = prop THEN value.h ELSE @[n]]],
   threw |-> FALSE]

\* The proxy's set trap: a value that is not a Queue instance throws an
\* Error and nothing is stored; a Queue instance is stored under prop.
proxySet(s, prop, value) ==
  IF value.kind # "Queue"
  THEN [st |-> s, threw |-> TRUE]
  ELSE [st |-> [s EXCEPT !.map = [n \in DOMAIN @ \cup {prop} |->
                                    IF n = prop THEN value.h ELSE @[n]]],
        threw |-> FALSE]

\* The body of initQueues' for loop, for every configured name in order:
\*   queues[queueName] = new Queue(...)     (proxy set trap: target[prop] = value)
\*   queues[queueName].process(1, callback) (proxy get trap on a non-empty cache)
RECURSIVE createQueues(_, _)
createQueues(s, names) ==
  IF names = <<>> THEN s
  ELSE LET h == Len(s.hs) + 1
           s1 == [s EXCEPT !.hs = Append(@, NewQueue(Head(names), TRUE))]
           s2 == proxySet(s1, Head(names), SetValue("Queue", h)).st
       IN createQueues(
            [s2 EXCEPT !.hs[s2.map[Head(names)]].consumers = @ + 1],
            Tail(names))

\* initQueues(): ret is "object" for the fresh {} of the no-queues early
\* return, "queues" for the proxy itself, and "throw" when loadJobs threw.
initQueues(s) ==
  LET s1 == loadJobs(s)
  IN IF s1.log.threw
     THEN [st |-> s1, ret |-> "throw"]
     ELSE IF ~s1.init /\ Len(cfg.queues) = 0
     THEN [st |-> [s1 EXCEPT !.init = TRUE], ret |-> "object"]
     ELSE [st |-> IF cfg.hasQueues
                  THEN createQueues([s1 EXCEPT !.init = TRUE], cfg.queues)
                  ELSE [s1 EXCEPT !.init = TRUE],
           ret |-> "queues"]

\* The proxy's get trap. With an empty cache it calls initQueues and reads
\* the property from what that returned: from {} (undefined), or from the
\* proxy itself, which runs the trap again one frame deeper. A frame past
\* the engine's stack depth throws RangeError.
RECURSIVE proxyGet(_, _, _)
proxyGet(s, prop, depth) ==
  IF DOMAIN s.map # {}
  THEN [st |-> s,
        val |-> IF prop \in DOMAIN s.map
                THEN ValHandle(s.map[prop]) ELSE ValUndefined]
  ELSE IF depth >= MaxStackDepth
  THEN [st |-> s, val |-> ValRangeError]
  ELSE LET r == initQueues(s)
       IN IF r.ret = "throw"
          THEN [st |-> r.st, val |-> ValTypeError]
          ELSE IF r.ret = "object"
          THEN [st |-> r.st, val |-> ValUndefined]
          ELSE proxyGet(r.st, prop, depth + 1)

\* ------------------------------------------------------------------ Job.ts
\* new C(), with the fields the subclass overrides.
\* (History: delayCalled, whether delay() has been called on it; overrides,
\* whether its class sets any field of its own.)
NewJob(c, queueName, delayInSeconds, attempts) ==
  [cls |-> c, queueName |-> queueName, delayInSeconds |-> delayInSeconds,
   attempts |-> attempts, delayCalled |-> FALSE, overrides |-> TRUE]

\* The field initialisers of the base class Job.
DefaultQueueName == "default"
DefaultDelay == 0
DefaultAttempts == 5

\* A base class whose attempts field starts unset.
NewPlainJobNoAttempts(c) ==
  [NewJob(c, DefaultQueueName, DefaultDelay, 0) EXCEPT !.overrides = FALSE]

\* new C(), C a subclass that declares no field: the base class's
\* initialisers are all there is.
NewPlainJob(c) ==
  [NewJob(c, DefaultQueueName, DefaultDelay, DefaultAttempts)
     EXCEPT !.overrides = FALSE]

\* Job.delay(seconds): the fluent setter
delay(job, seconds) ==
  [job EXCEPT !.delayInSeconds = seconds, !.delayCalled = TRUE]

\* getOptions passing the delay on in seconds.
getOptionsInSeconds(job) ==
  LET keys == (IF job.delayInSeconds # 0 THEN {"delay"} ELSE {})
                \cup (IF job.attempts # 0 THEN {"attempts"} ELSE {})
  IN [k \in keys |-> IF k = "delay" THEN job.delayInSeconds ELSE job.attempts]

\* getOptions leaving the attempts out.
getOptionsNoAttempts(job) ==
  LET keys == IF job.delayInSeconds # 0 THEN {"delay"} ELSE {}
  IN [k \in keys |-> job.delayInSeconds * 1000]

\* Job.getOptions(): a key is present only when its field is truthy.
getOptions(job) ==
  LET keys == (IF job.delayInSeconds # 0 THEN {"delay"} ELSE {})
                \cup (IF job.attempts # 0 THEN {"attempts"} ELSE {})
  IN [k \in keys |->
        IF k = "delay" THEN job.delayInSeconds * 1000 ELSE job.attempts]

\* An envelope that names the instance's queue in place of its class.
envelopeQueueName(job, payload) == [job |-> job.queueName, payload |-> payload]

\* An envelope named after the base class Job instead of the instance's.
envelopeBaseName(job, payload) == [job |-> "Job", payload |-> payload]

\* The envelope dispatch submits: {job: this.constructor.name, payload}
envelope(job, payload) == [job |-> ClassName(job.cls), payload |-> payload]

\* The arguments of dispatch's queue.add call: lark-jobs passes
\* getOptions(), quirk passes the envelope alone.
addCall(job, payload, h) ==
  [queue |-> h, data |-> envelope(job, payload),
   opts |-> IF ClassPkg(job.cls) = "quirk" THEN <<>> ELSE getOptions(job)]

\* A dispatchNow that answers true whenever handle returns, as dispatch does.
dispatchNowSettleTrue(call, o) ==
  [call EXCEPT !.outcome = o,
               !.state = IF o.kind = "return" THEN "resolved" ELSE "rejected",
               !.result = IF o.kind = "return" THEN "true" ELSE o.val]

\* Job.dispatchNow(payload) up to the settling of handle: one call of
\* this.handle(payload) (and a debug log); no queue is touched.
dispatchNow(job, payload) ==
  [job |-> job, payload |-> payload, handleCalls |-> 1, handleArg |-> payload,
   state |-> "handling", outcome |-> [kind |-> "none", val |-> Undefined],
   result |-> Undefined]

\* `return this.handle(payload)` in an async method: the promise resolves
\* to what handle resolves to and rejects with what handle throws.
dispatchNowSettle(call, o) ==
  [call EXCEPT !.outcome = o,
               !.state = IF o.kind = "return" THEN "resolved" ELSE "rejected",
               !.result = o.val]

\* An add call whose arguments are read from the instance when the
\* transport takes the job.
submittedLate(d, inst) == addCall(inst, d.payload, d.queue)

\* The add call of dispatch d as the transport receives it: its arguments
\* were evaluated when dispatch ran `this.queue.add({...}, this.getOptions())`,
\* whatever the instance inst holds by the time add settles.
submitted(d, inst) == d.adds[1]

\* The error queue.add rejects with.
AddError == "Error"

\* A dispatch that answers false when add rejects.
dispatchSettleFalse(d, ok) ==
  IF ok THEN [d EXCEPT !.state = "resolved", !.result = "true"]
  ELSE [d EXCEPT !.state = "resolved", !.result = "false"]

\* dispatch after `await this.queue.add(...)`: add resolved, it closes the
\* handle and returns true; add rejected, the await throws and dispatch
\* rejects with the same error.
dispatchSettle(d, ok) ==
  IF ok THEN [d EXCEPT !.state = "resolved", !.result = "true"]
  ELSE [d EXCEPT !.state = "rejected", !.result = AddError]

\* --------------------------------------------------------------- transport
\* A job accepted by queue.add on handle q: its attempt limit is the add
\* call's attempts option, else the handle's defaultJobOptions.attempts.
NewMessage(q, call) ==
  [queue |-> q.name, job |-> call.data.job, payload |-> call.data.payload,
   limit |-> IF "attempts" \in DOMAIN call.opts
             THEN call.opts["attempts"] ELSE q.attempts,
   made |-> 0, state |-> "waiting", by |-> 0, deliveries |-> 0,
   phase |-> "none", known |-> FALSE, cls |-> 0, instances |-> 0,
   built |-> 0, calls |-> <<>>,
   handleCalls |-> 0, errors |-> 0, dones |-> <<>>,
   outcome |-> [kind |-> "none", val |-> Undefined]]

\* The transport's reading of the done callback: no argument or a falsy one
\* completes the job; a truthy one fails the attempt, which is retried
\* while attempts remain.
transportDone(m, arg) ==
  LET m1 == [m EXCEPT !.dones = Append(@, arg), !.phase = "finished"]
  IN IF arg = NoArg \/ ~Truthy(arg)
     THEN [m1 EXCEPT !.state = "completed"]
     ELSE [m1 EXCEPT !.made = @ + 1,
                     !.state = IF m.made + 1 < m.limit
                               THEN "waiting" ELSE "failed"]

\* ------------------------------------------------------- consumer callback
\* A lookup that falls back to some registered class.
jobHandlerFallback(reg, job) ==
  IF job \in DOMAIN reg THEN reg[job]
  ELSE IF DOMAIN reg # {} THEN reg[CHOOSE n \in DOMAIN reg : TRUE]
  ELSE 0

\* const jobHandler = Config.jobs[job]; 0 stands for undefined.
jobHandler(reg, job) == IF job \in DOMAIN reg THEN reg[job] ELSE 0

\* A callback that constructs the class for a message's first delivery
\* only and calls handle on that instance again at a redelivery.
processStartKeepInstance(m, reg) ==
  LET h == jobHandler(reg, m.job)
      n == IF m.deliveries = 1 THEN 1 ELSE 0
  IN IF h = 0
     THEN [m EXCEPT !.errors = @ + 1, !.phase = "returned"]
     ELSE [m EXCEPT !.cls = h, !.instances = @ + n, !.built = @ + n,
                    !.calls = <<[cls |-> h, ctorArgs |-> <<>>,
                                 arg |-> m.payload]>>,
                    !.handleCalls = @ + 1, !.phase = "handling"]

\* The callback up to its await: with no handler it logs an error and
\* returns; otherwise it constructs the class, with no constructor
\* argument, and calls handle(payload) on the new instance. (History:
\* instances and handleCalls count within the delivery, built over all
\* deliveries of the message; calls lists the delivery's handle calls.)
processStart(m, reg) ==
  LET h == jobHandler(reg, m.job)
  IN IF h = 0
     THEN [m EXCEPT !.errors = @ + 1, !.phase = "returned"]
     ELSE [m EXCEPT !.cls = h, !.instances = @ + 1, !.built = @ + 1,
                    !.calls = <<[cls |-> h, ctorArgs |-> <<>>,
                                 arg |-> m.payload]>>,
                    !.handleCalls = @ + 1, !.phase = "handling"]

\* A callback whose catch block runs after done() was already called.
processSettleDoneTwice(m, o) ==
  LET m1 == [m EXCEPT !.outcome = o]
  IN IF o.kind = "return"
     THEN transportDone(m1, NoArg)
     ELSE IF o.val \in {"null", Undefined}
     THEN [m1 EXCEPT !.phase = "rejected"]
     ELSE transportDone(transportDone([m1 EXCEPT !.errors = @ + 1], NoArg),
                        o.val)

\* A callback that reports a false result as a failure.
processSettleFalseFails(m, o) ==
  LET m1 == [m EXCEPT !.outcome = o]
  IN IF o.kind = "return" /\ o.val # "false"
     THEN transportDone(m1, NoArg)
     ELSE transportDone([m1 EXCEPT !.errors = @ + 1], "Error")

\* The callback after the await. handle resolved: done(). handle threw:
\* the catch reads error.message, a TypeError on null and undefined that
\* rejects the callback before done; else done(error).
processSettle(m, o) ==
  LET m1 == [m EXCEPT !.outcome = o]
  IN IF o.kind = "return"
     THEN transportDone(m1, NoArg)
     ELSE IF o.val \in {"null", Undefined}
     THEN [m1 EXCEPT !.phase = "rejected"]
     ELSE transportDone([m1 EXCEPT !.errors = @ + 1], o.val)

\* What handle(payload) of class c can do.
HandleOutcomes(c, payload) ==
  IF c = 1 THEN {[kind |-> "throw", val |-> payload]}
  ELSE IF c = 2 THEN {[kind |-> "throw", val |-> "Error"]}
  ELSE [kind : {"return"}, val : ReturnValues]
         \cup [kind : {"throw"}, val : ThrownValues]

\* ----------------------------------------------------------------- the CLI
\* The command classes, by file.
\*   1: InitCommand and 2: AddCommand, the built-in commands
\*   3: AddJobCommand of lark-jobs
\*   4: ExampleCommand of the cli app (dispatches ExampleJob, returns true)
\*   5: a project command whose handle may return or throw anything
CommandIds == {1, 2, 3, 4, 5}

\* The key a command class declares (readonly key = '...').
CommandKey(c) ==
  CASE c = 1 -> "init"
    [] c = 2 -> "add"
    [] c = 3 -> "job:add"
    [] c = 4 -> "example"
    [] OTHER -> "custom"

CommandKeys == {CommandKey(c) : c \in CommandIds}

\* The classes defined by the files of the Config.data.commands directory,
\* in the order readdirSync lists them.
CommandFiles == <<4, 5>>

\* Command.register(command): the class is stored under its key.
registerCommand(reg, c) ==
  [k \in DOMAIN reg \cup {CommandKey(c)} |->
     IF k = CommandKey(c) THEN c ELSE reg[k]]

RECURSIVE registerCommands(_, _)
registerCommands(reg, cs) ==
  IF cs = <<>> THEN reg
  ELSE registerCommands(registerCommand(reg, Head(cs)), Tail(cs))

\* The imports at the top of the entry file: InitCommand, AddCommand and,
\* when @s18i/lark-jobs is installed, AddJobCommand, each registering itself.
importCommands(jobsInstalled) ==
  registerCommands(<<>>, IF jobsInstalled THEN <<1, 2, 3>> ELSE <<1, 2>>)

\* What the discovery of boot meets: no commands directory configured, a
\* directory whose files all load, a directory readdirSync cannot read (it
\* throws an Error), or a directory whose file number `at` throws `thrown`
\* as it is loaded.
Discoveries ==
  [kind : {"unconfigured", "ok", "unreadable"}, at : {0}, thrown : {Undefined}]
    \cup [kind : {"fileThrows"}, at : DOMAIN CommandFiles, thrown : ThrownValues]

\* A log line of the CLI: its text and the command key it names.
LogLoadError == [text |-> "Error loading commands", key |-> Undefined]
LogCommandError(k) == [text |-> "Error executing command", key |-> k]

\* A discovery whose catch block logs whatever was thrown.
loadCommandsLogAll(reg, d) ==
  IF d.kind = "unconfigured" THEN [reg |-> reg, logs |-> <<>>, threw |-> FALSE]
  ELSE IF d.kind = "ok"
  THEN [reg |-> registerCommands(reg, CommandFiles), logs |-> <<>>,
        threw |-> FALSE]
  ELSE IF d.kind = "unreadable"
  THEN [reg |-> reg, logs |-> <<LogLoadError>>, threw |-> FALSE]
  ELSE [reg |-> registerCommands(reg, SubSeq(CommandFiles, 1, d.at - 1)),
        logs |-> <<LogLoadError>>, threw |-> FALSE]

\* Lines 35-50 of the entry file: the files are required in order, each
\* registering its class; a throw ends the loop and the catch block logs
\* error.message, itself a TypeError when null or undefined was thrown, and
\* that one leaves the module (threw).
loadCommands(reg, d) ==
  IF d.kind = "unconfigured" THEN [reg |-> reg, logs |-> <<>>, threw |-> FALSE]
  ELSE IF d.kind = "ok"
  THEN [reg |-> registerCommands(reg, CommandFiles), logs |-> <<>>,
        threw |-> FALSE]
  ELSE IF d.kind = "unreadable"
  THEN [reg |-> reg, logs |-> <<LogLoadError>>, threw |-> FALSE]
  ELSE LET r == registerCommands(reg, SubSeq(CommandFiles, 1, d.at - 1))
       IN IF d.thrown \in {"null", Undefined}
          THEN [reg |-> r, logs |-> <<>>, threw |-> TRUE]
          ELSE [reg |-> r, logs |-> <<LogLoadError>>, threw |-> FALSE]

\* What handle(args) of command class c can do.
CommandOutcomes(c) ==
  IF c \in {1, 2, 3} THEN [kind : {"return"}, val : {"true", "false"}]
  ELSE IF c = 4
  THEN {[kind |-> "return", val |-> "true"], [kind |-> "throw", val |-> "Error"]}
  ELSE [kind : {"return"}, val : ReturnValues]
         \cup [kind : {"throw"}, val : ThrownValues]

\* ------------------------------------------------ AddJobCommand (job:add)
\* The job names handle may be given, as its argument or at the prompt;
\* Undefined: no argument, or a cancelled prompt.
JobNameArgs == {Undefined, "emptyString", "email", "Email"}
JobNameAnswers == {Undefined, "report"}

\* `${jobName.charAt(0).toUpperCase() + jobName.slice(1)}Job.ts`
JobFileName(jobName) ==
  IF jobName \in {"email", "Email"} THEN "EmailJob.ts" ELSE "ReportJob.ts"

\* The template written for jobName (it registers `${Name}Command`).
JobFileContent(jobName) ==
  [class |-> JobFileName(jobName), registers |-> "Command", by |-> jobName]

\* A handle that writes without looking for the file first.
AddJobHandleOverwrite(files, arg, answer, writeOk) ==
  LET jobName == IF arg \in {Undefined, "emptyString"} THEN answer ELSE arg
  IN IF jobName = Undefined
     THEN [files |-> files, result |-> "false", name |-> jobName]
     ELSE IF writeOk
     THEN [files |-> [f \in DOMAIN files \cup {JobFileName(jobName)} |->
                        IF f = JobFileName(jobName)
                        THEN JobFileContent(jobName) ELSE files[f]],
           result |-> "true", name |-> jobName]
     ELSE [files |-> files, result |-> "false", name |-> jobName]

\* AddJobCommand.handle([jobName]): a falsy argument is asked for at the
\* prompt; with no name still, false. An existing target file: false. Else
\* writeFileSync: true when it wrote, false when it threw.
AddJobHandle(files, arg, answer, writeOk) ==
  LET jobName == IF arg \in {Undefined, "emptyString"} THEN answer ELSE arg
  IN IF jobName = Undefined
     THEN [files |-> files, result |-> "false", name |-> jobName]
     ELSE IF JobFileName(jobName) \in DOMAIN files
     THEN [files |-> files, result |-> "false", name |-> jobName]
     ELSE IF writeOk
     THEN [files |-> [f \in DOMAIN files \cup {JobFileName(jobName)} |->
                        IF f = JobFileName(jobName)
                        THEN JobFileContent(jobName) ELSE files[f]],
           result |-> "true", name |-> jobName]
     ELSE [files |-> files, result |-> "false", name |-> jobName]

\* An action that logs the error and throws it on.
commandActionRethrows(k, o) ==
  IF o.kind = "return"
  THEN [logs |-> <<>>, result |-> [kind |-> "resolved", val |-> o.val]]
  ELSE [logs |-> <<LogCommandError(k)>>,
        result |-> [kind |-> "rejected", val |-> o.val]]

\* The action bound to key k, after its await of handle: the data is
\* returned; a throw is caught and logged with the key, the action
\* resolving to undefined, but reading error.message of null or undefined
\* is a TypeError that rejects the action before anything is logged.
commandAction(k, o) ==
  IF o.kind = "return"
  THEN [logs |-> <<>>, result |-> [kind |-> "resolved", val |-> o.val]]
  ELSE IF o.val \in {"null", Undefined}
  THEN [logs |-> <<>>, result |-> [kind |-> "rejected", val |-> "TypeError"]]
  ELSE [logs |-> <<LogCommandError(k)>>,
        result |-> [kind |-> "resolved", val |-> Undefined]]

\* The positional arguments argv may hold after the subcommand.
ArgLists == {<<>>, <<"name">>}

\* An action that calls handle with no arguments.
actionCallsNoArgs(k, parsedArgs) == <<[key |-> k, args |-> <<>>]>>

\* The handle calls the action bound to key k makes when it is invoked:
\* one, on the instance bound to k, with the command's parsed positional
\* arguments (args[1].args).
actionCalls(k, parsedArgs) == <<[key |-> k, args |-> parsedArgs]>>

\* The CLI process before its entry file runs.
CliAtStart ==
  [phase |-> "imports", discovery |-> [kind |-> "none", at |-> 0, thrown |-> Undefined],
   bound |-> {}, instances |-> <<>>, argv |-> Undefined, args |-> <<>>,
   handleCalls |-> <<>>,
   outcome |-> [kind |-> "none", val |-> Undefined],
   result |-> [kind |-> "none", val |-> Undefined], logs |-> <<>>]

\* The keys of Config.commands in Object.entries order, which is insertion
\* order: the imports first, then the discovered files.
RECURSIVE KeysInOrder(_, _)
KeysInOrder(reg, cs) ==
  IF cs = <<>> THEN <<>>
  ELSE IF CommandKey(Head(cs)) \in DOMAIN reg
  THEN <<CommandKey(Head(cs))>> \o KeysInOrder(reg, Tail(cs))
  ELSE KeysInOrder(reg, Tail(cs))

\* ----------------------------------------------------------------- actions
Init ==
  /\ cfg \in Configs
  /\ ConfigJobs = <<>>
  /\ isInitialized = FALSE
  /\ queueMap = <<>>
  /\ handles = <<>>
  /\ loadJobsCalls = 0
  /\ lookups = 0
  /\ initCalls = 0
  /\ lastLookup = [prop |-> Undefined, val |-> ValUndefined]
  /\ jobInst = NewJob(0, Undefined, 0, 0)
  /\ dispatches = <<>>
  /\ nowCalls = <<>>
  /\ msgs = <<>>
  /\ ConfigCommands = <<>>
  /\ cli = CliAtStart
  /\ loadLog = [errors |-> 0, threw |-> FALSE]
  /\ sets = <<>>
  /\ jobAdd = [files |-> <<>>, runs |-> <<>>]

Commit(s) ==
  /\ isInitialized' = s.init
  /\ queueMap' = s.map
  /\ handles' = s.hs
  /\ ConfigJobs' = s.reg
  /\ loadJobsCalls' = s.loads
  /\ loadLog' = s.log

\* queues[prop], read from outside the module
Lookup(prop) ==
  /\ lookups < MaxLookups
  /\ LET r == proxyGet(QState, prop, 0)
     IN /\ Commit(r.st)
        /\ lastLookup' = [prop |-> prop, val |-> r.val]
  /\ lookups' = lookups + 1
  /\ UNCHANGED <<cfg, sets, cliVars, nowCalls, initCalls, dispatches, msgs, jobInst>>

\* queues[prop] = v, written from outside the module; a Queue is one the
\* caller has just made with configureQueue(prop).
QueueSet(prop, v) ==
  /\ Len(sets) < MaxSets
  /\ LET s0 == IF v = "Queue"
               THEN [QState EXCEPT !.hs = Append(@, configureQueue(prop))]
               ELSE QState
         r == proxySet(s0, prop, SetValue(v, Len(s0.hs)))
     IN /\ Commit(r.st)
        /\ sets' = Append(sets, [prop |-> prop, value |-> v, threw |-> r.threw])
  /\ UNCHANGED <<cfg, cliVars, nowCalls, lookups, initCalls, lastLookup,
                 dispatches, msgs, jobInst>>

\* initQueues(), called directly (the worker entry point jobs.ts)
CallInitQueues ==
  /\ initCalls < MaxInitCalls
  /\ Commit(initQueues(QState).st)
  /\ initCalls' = initCalls + 1
  /\ UNCHANGED <<cfg, sets, cliVars, nowCalls, lookups, lastLookup, dispatches, msgs, jobInst>>

\* Job.register(c), called outside discovery
Register(c) ==
  /\ ConfigJobs' = register(ConfigJobs, c)
  /\ ConfigJobs' # ConfigJobs
  /\ UNCHANGED <<cfg, sets, cliVars, nowCalls, isInitialized, queueMap, handles,
                 loadJobsCalls, loadLog, lookups, initCalls, lastLookup,
                 dispatches, msgs, jobInst>>

\* jobInst = new C(), C a subclass that sets queueName, delayInSeconds and
\* attempts as given.
Construct(c, qn, d, a) ==
  /\ jobInst.cls = 0
  /\ jobInst' = NewJob(c, qn, d, a)
  /\ UNCHANGED <<cfg, cliVars, nowCalls, queueVars, handles, dispatches, msgs>>

\* jobInst = new C(), C a subclass that overrides no field.
ConstructPlain(c) ==
  /\ jobInst.cls = 0
  /\ jobInst' = NewPlainJob(c)
  /\ UNCHANGED <<cfg, cliVars, nowCalls, queueVars, handles, dispatches, msgs>>

\* jobInst.delay(seconds), on the lark-jobs base class
SetDelay(seconds) ==
  /\ jobInst.cls # 0
  /\ ClassPkg(jobInst.cls) = "lark-jobs"
  /\ jobInst' = delay(jobInst, seconds)
  /\ jobInst' # jobInst
  /\ UNCHANGED <<cfg, cliVars, nowCalls, queueVars, handles, dispatches, msgs>>

\* jobInst.<field> = value: the fields are public and writable.
Assign(f, v) ==
  /\ jobInst.cls # 0
  /\ jobInst' = [jobInst EXCEPT ![f] = v]
  /\ jobInst' # jobInst
  /\ UNCHANGED <<cfg, cliVars, nowCalls, queueVars, handles, dispatches, msgs>>

\* jobInst.dispatch(payload) up to its await of queue.add: configureQueue,
\* then the add call.
DispatchCall(p) ==
  /\ jobInst.cls # 0
  /\ Len(dispatches) < MaxDispatches
  /\ LET h == Len(handles) + 1
     IN /\ handles' = Append(handles, configureQueue(jobInst.queueName))
        /\ dispatches' =
             Append(dispatches,
                    [job |-> jobInst, payload |-> p, queue |-> h,
                     adds |-> <<addCall(jobInst, p, h)>>, state |-> "adding",
                     result |-> Undefined, msg |-> 0])
  /\ UNCHANGED <<cfg, cliVars, nowCalls, queueVars, jobInst, msgs>>

\* queue.add settles. Resolved: the transport holds the job (msg is its
\* place in msgs), dispatch closes its handle and returns true. Rejected:
\* dispatch rejects at once.
AddSettles(i, ok) ==
  /\ dispatches[i].state = "adding"
  /\ LET d == dispatches[i]
     IN IF ok
        THEN /\ msgs' = Append(msgs, NewMessage(handles[d.queue],
                                                submitted(d, jobInst)))
             /\ handles' = [handles EXCEPT ![d.queue].closed = TRUE]
             /\ dispatches' =
                  [dispatches EXCEPT
                     ![i] = [dispatchSettle(d, ok) EXCEPT !.msg = Len(msgs) + 1]]
        ELSE /\ dispatches' = [dispatches EXCEPT ![i] = dispatchSettle(d, ok)]
             /\ UNCHANGED <<msgs, handles>>
  /\ UNCHANGED <<cfg, cliVars, nowCalls, queueVars, jobInst>>

\* jobInst.dispatchNow(payload): handle(payload) is called.
DispatchNowCall(p) ==
  /\ jobInst.cls # 0
  /\ Len(nowCalls) < MaxNowCalls
  /\ nowCalls' = Append(nowCalls, dispatchNow(jobInst, p))
  /\ UNCHANGED <<cfg, cliVars, queueVars, handles, dispatches, msgs, jobInst>>

\* handle(payload) of dispatchNow call i settles, and so does the call.
NowSettles(i, o) ==
  /\ nowCalls[i].state = "handling"
  /\ o \in HandleOutcomes(nowCalls[i].job.cls, nowCalls[i].payload)
  /\ nowCalls' = [nowCalls EXCEPT ![i] = dispatchNowSettle(nowCalls[i], o)]
  /\ UNCHANGED <<cfg, cliVars, queueVars, handles, dispatches, msgs, jobInst>>

\* A job of class c with attempts 1 and no delay, dispatched to queue qn by
\* a producer in another process, is accepted by the transport.
Arrive(c, qn, p) ==
  /\ Len(msgs) < MaxArrivals
  /\ LET j == NewJob(c, qn, 0, 1)
     IN msgs' = Append(msgs, NewMessage(configureQueue(j.queueName),
                                        addCall(j, p, 0)))
  /\ UNCHANGED <<cfg, cliVars, nowCalls, queueVars, handles, dispatches, jobInst>>

\* Handle h, free, is given waiting message i of its queue and the callback
\* runs up to its await.
Busy(h) == \E j \in DOMAIN msgs : msgs[j].state = "active" /\ msgs[j].by = h

Deliver(i, h) ==
  /\ msgs[i].state = "waiting"
  /\ handles[h].consumers > 0
  /\ handles[h].name = msgs[i].queue
  /\ ~Busy(h)
  /\ LET m == [msgs[i] EXCEPT !.state = "active", !.by = h,
                              !.deliveries = @ + 1,
                              !.known = (msgs[i].job \in DOMAIN ConfigJobs),
                              !.cls = 0, !.instances = 0, !.handleCalls = 0,
                              !.calls = <<>>,
                              !.errors = 0, !.dones = <<>>,
                              !.outcome = [kind |-> "none", val |-> Undefined]]
     IN msgs' = [msgs EXCEPT ![i] = processStart(m, ConfigJobs)]
  /\ UNCHANGED <<cfg, cliVars, nowCalls, queueVars, handles, dispatches, jobInst>>

\* handle(payload) of message i settles and the callback runs to its end.
HandleSettles(i, o) ==
  /\ msgs[i].phase = "handling"
  /\ o \in HandleOutcomes(msgs[i].cls, msgs[i].payload)
  /\ msgs' = [msgs EXCEPT ![i] = processSettle(msgs[i], o)]
  /\ UNCHANGED <<cfg, cliVars, nowCalls, queueVars, handles, dispatches, jobInst>>

\* A file of the jobs directory written by hand.
ExistingContent == [class |-> "hand-written", registers |-> "Job", by |-> Undefined]

JobFileAppears(f) ==
  /\ f \notin DOMAIN jobAdd.files
  /\ jobAdd' = [jobAdd EXCEPT
                  !.files = [g \in DOMAIN @ \cup {f} |->
                               IF g = f THEN ExistingContent ELSE @[g]]]
  /\ UNCHANGED <<cfg, ConfigCommands, cli, nowCalls, queueVars, handles,
                 dispatches, msgs, jobInst>>

\* One run of job:add's handle, from its call to its return.
JobAdd(arg, answer, writeOk) ==
  /\ Len(jobAdd.runs) < MaxJobAdds
  /\ LET r == AddJobHandle(jobAdd.files, arg, answer, writeOk)
     IN jobAdd' = [files |-> r.files,
                   runs |-> Append(jobAdd.runs,
                                   [arg |-> arg, name |-> r.name,
                                    before |-> jobAdd.files,
                                    after |-> r.files,
                                    writable |-> writeOk,
                                    result |-> r.result])]
  /\ UNCHANGED <<cfg, ConfigCommands, cli, nowCalls, queueVars, handles,
                 dispatches, msgs, jobInst>>

\* The entry file's imports run (lines 13-22).
CliImports(jobsInstalled) ==
  /\ cli.phase = "imports"
  /\ ConfigCommands' = importCommands(jobsInstalled)
  /\ cli' = [cli EXCEPT !.phase = "discover"]
  /\ UNCHANGED <<cfg, jobAdd, nowCalls, queueVars, handles, dispatches, msgs, jobInst>>

\* The command discovery of lines 35-50, meeting d. An error that leaves
\* the module ends the process.
CliLoadCommands(d) ==
  /\ cli.phase = "discover"
  /\ LET r == loadCommands(ConfigCommands, d)
     IN /\ ConfigCommands' = r.reg
        /\ cli' = [cli EXCEPT !.phase = IF r.threw THEN "crashed" ELSE "bind",
                              !.discovery = d,
                              !.logs = @ \o r.logs]
  /\ UNCHANGED <<cfg, jobAdd, nowCalls, queueVars, handles, dispatches, msgs, jobInst>>

\* The loop of lines 53-70: for every entry of Config.commands an instance
\* is constructed and its key bound as a subcommand.
CliBind ==
  /\ cli.phase = "bind"
  /\ LET ks == KeysInOrder(ConfigCommands, <<1, 2, 3>> \o CommandFiles)
     IN cli' = [cli EXCEPT !.phase = "parse",
                           !.bound = DOMAIN ConfigCommands,
                           !.instances = [i \in DOMAIN ks |-> ConfigCommands[ks[i]]]]
  /\ UNCHANGED <<cfg, jobAdd, nowCalls, queueVars, handles, dispatches, msgs, jobInst,
                 ConfigCommands>>

\* program.parse(process.argv), argv naming subcommand k and the positional
\* arguments as: the action bound to k runs up to its await of
\* commandInstance.handle(args). A key that is not bound runs no action.
CliParse(k, as) ==
  /\ cli.phase = "parse"
  /\ cli' = IF k \in cli.bound
            THEN [cli EXCEPT !.phase = "handling", !.argv = k, !.args = as,
                             !.handleCalls = @ \o actionCalls(k, as)]
            ELSE [cli EXCEPT !.phase = "done", !.argv = k, !.args = as]
  /\ UNCHANGED <<cfg, jobAdd, nowCalls, queueVars, handles, dispatches, msgs, jobInst,
                 ConfigCommands>>

\* handle settles and the action runs to its end. A rejected action is an
\* unhandled rejection: parse does not await it.
CliHandleSettles(o) ==
  /\ cli.phase = "handling"
  /\ o \in CommandOutcomes(ConfigCommands[cli.argv])
  /\ LET r == commandAction(cli.argv, o)
     IN cli' = [cli EXCEPT !.phase = IF r.result.kind = "rejected"
                                     THEN "crashed" ELSE "done",
                           !.outcome = o,
                           !.result = r.result,
                           !.logs = @ \o r.logs]
  /\ UNCHANGED <<cfg, jobAdd, nowCalls, queueVars, handles, dispatches, msgs, jobInst,
                 ConfigCommands>>

Outcomes ==
  [kind : {"return"}, val : ReturnValues] \cup [kind : {"throw"}, val : ThrownValues]

\* One run of the CLI entry file: imports, discovery, binding, parse and
\* the invoked command's action.
NextCli ==
  \/ \E jobsInstalled \in BOOLEAN : CliImports(jobsInstalled)
  \/ \E d \in Discoveries : CliLoadCommands(d)
  \/ CliBind
  \/ \E k \in CommandKeys, as \in ArgLists : CliParse(k, as)
  \/ \E o \in Outcomes : CliHandleSettles(o)

SpecCli == Init /\ [][NextCli]_vars

Next ==
  \/ \E prop \in QueueNames : Lookup(prop)
  \/ \E prop \in QueueNames, v \in SetValues : QueueSet(prop, v)
  \/ CallInitQueues
  \/ \E c \in ClassIds : Register(c)
  \/ \E c \in ClassIds, qn \in QueueNames, d \in 0..MaxDelay,
        a \in 0..MaxAttempts : Construct(c, qn, d, a)
  \/ \E c \in ClassIds : ConstructPlain(c)
  \/ \E d \in 0..MaxDelay : SetDelay(d)
  \/ \E p \in Payloads : DispatchCall(p)
  \/ \E i \in DOMAIN dispatches, ok \in BOOLEAN : AddSettles(i, ok)
  \/ \E i \in DOMAIN msgs, h \in DOMAIN handles : Deliver(i, h)
  \/ \E i \in DOMAIN msgs, o \in Outcomes : HandleSettles(i, o)
  \/ \E p \in Payloads : DispatchNowCall(p)
  \/ \E i \in DOMAIN nowCalls, o \in Outcomes : NowSettles(i, o)
  \/ \E c \in ClassIds, qn \in QueueNames, p \in Payloads : Arrive(c, qn, p)
  \/ NextCli
  \/ \E qn \in QueueNames : Assign("queueName", qn)
  \/ \E d \in 0..MaxDelay : Assign("delayInSeconds", d)
  \/ \E a \in 0..MaxAttempts : Assign("attempts", a)
  \/ \E f \in {"EmailJob.ts", "ReportJob.ts"} : JobFileAppears(f)
  \/ \E arg \in JobNameArgs, answer \in JobNameAnswers, writeOk \in BOOLEAN :
       JobAdd(arg, answer, writeOk)

Spec == Init /\ [][Next]_vars

\* The queue access layer alone: lookups, initQueues() calls, registrations.
NextQueues ==
  \/ \E prop \in QueueNames : Lookup(prop)
  \/ CallInitQueues
  \/ \E c \in ClassIds : Register(c)

SpecQueues == Init /\ [][NextQueues]_vars

\* The producer: a job of any configuration, constructed and dispatched in
\* a process that may have called initQueues() before.
NextDispatch ==
  \/ jobInst.cls = 0 /\ CallInitQueues
  \/ \E c \in ClassIds, qn \in QueueNames, d \in 0..MaxDelay,
        a \in 0..MaxAttempts : Construct(c, qn, d, a)
  \/ \E c \in ClassIds : ConstructPlain(c)
  \/ \E d \in 0..MaxDelay : SetDelay(d)
  \/ \E p \in Payloads : DispatchCall(p)
  \/ \E i \in DOMAIN dispatches, ok \in BOOLEAN : AddSettles(i, ok)

SpecDispatch == Init /\ [][NextDispatch]_vars

\* The classes of the lark-jobs apps, whose worker index.ts is.
WorkerClasses == {c \in ClassIds : ClassPkg(c) = "lark-jobs"}

\* The lark-jobs worker: initQueues(), registrations, and the consumer
\* callback on the jobs that dispatch submits without a delay, with no
\* attempts option (the handle's default applies) or with attempts 1.
NextWorker ==
  \/ CallInitQueues
  \/ \E c \in WorkerClasses : Register(c)
  \/ \E c \in WorkerClasses, qn \in QueueNames, a \in {0, 1} :
       Construct(c, qn, 0, a)
  \/ \E p \in Payloads : DispatchCall(p)
  \/ \E i \in DOMAIN dispatches : AddSettles(i, TRUE)
  \/ \E i \in DOMAIN msgs, h \in DOMAIN handles : Deliver(i, h)
  \/ \E i \in DOMAIN msgs, o \in Outcomes : HandleSettles(i, o)

SpecWorker == Init /\ [][NextWorker]_vars

\* A caller that runs jobs in place with dispatchNow, in a process that
\* also dispatches through the transport.
NextNow ==
  \/ \E c \in ClassIds, qn \in QueueNames : Construct(c, qn, 0, 0)
  \/ \E c \in ClassIds : ConstructPlain(c)
  \/ \E p \in Payloads : DispatchCall(p)
  \/ \E i \in DOMAIN dispatches, ok \in BOOLEAN : AddSettles(i, ok)
  \/ \E p \in Payloads : DispatchNowCall(p)
  \/ \E i \in DOMAIN nowCalls, o \in Outcomes : NowSettles(i, o)

SpecNow == Init /\ [][NextNow]_vars

\* The lark-jobs worker fed by producers of other processes: the process
\* reads `queues`, calls initQueues(), a job module outside the jobs
\* directory registers its class, and the consumers take the messages that
\* arrive.
NextConsumers ==
  \/ \E prop \in QueueNames : Lookup(prop)
  \/ CallInitQueues
  \/ Register(3)
  \/ \E c \in WorkerClasses, qn \in QueueNames : Arrive(c, qn, Undefined)
  \/ \E i \in DOMAIN msgs, h \in DOMAIN handles : Deliver(i, h)
  \/ \E i \in DOMAIN msgs, o \in Outcomes : HandleSettles(i, o)

SpecConsumers == Init /\ [][NextConsumers]_vars

\* A producer that goes on using its job instance after dispatch: it
\* writes the fields, calls delay(), and dispatches. It never initialises
\* queues, so of the configuration only jobs.options.attempts reaches it.
InitProducer ==
  /\ Init
  /\ cfg.queues = <<"default">>
  /\ cfg.dirReadable
  /\ cfg.fileThrows = "none"

NextProducer ==
  \/ \E qn \in QueueNames, a \in {0, 1} : Construct(3, qn, 0, a)
  \/ ConstructPlain(3)
  \/ \E d \in {0, 1} : SetDelay(d)
  \/ \E qn \in QueueNames : Assign("queueName", qn)
  \/ \E d \in {0, 1} : Assign("delayInSeconds", d)
  \/ \E a \in {0, 1} : Assign("attempts", a)
  \/ DispatchCall("string")
  \/ \E i \in DOMAIN dispatches, ok \in BOOLEAN : AddSettles(i, ok)

SpecProducer == InitProducer /\ [][NextProducer]_vars

\* A worker whose configuration names its queues and whose job discovery
\* works, and the producer that feeds it.
InitPipeline ==
  /\ Init
  /\ cfg.queues # <<>>
  /\ cfg.dirReadable
  /\ cfg.fileThrows = "none"

NextPipeline ==
  \/ CallInitQueues
  \/ Register(3)
  \/ \E c \in WorkerClasses, qn \in QueueNames, a \in {0, 1} :
       Construct(c, qn, 0, a)
  \/ ConstructPlain(3)
  \/ \E p \in Payloads : DispatchCall(p)
  \/ \E i \in DOMAIN dispatches, ok \in BOOLEAN : AddSettles(i, ok)
  \/ \E i \in DOMAIN msgs, h \in DOMAIN handles : Deliver(i, h)
  \/ \E i \in DOMAIN msgs, o \in Outcomes : HandleSettles(i, o)

SpecPipeline == InitPipeline /\ [][NextPipeline]_vars

\* ------------------------------------------------------------------ claims
ConfiguredNames == {cfg.queues[i] : i \in DOMAIN cfg.queues}

\* The handles initQueues constructed for queue name n.
InitHandles(n) ==
  {h \in DOMAIN handles : handles[h].shared /\ handles[h].name = n}

RECURSIVE SumConsumers(_)
SumConsumers(hs) ==
  IF hs = {} THEN 0
  ELSE LET h == CHOOSE x \in hs : TRUE
       IN handles[h].consumers + SumConsumers(hs \ {h})

\* process() calls made on the handles of queue name n.
ProcessCalls(n) == SumConsumers({h \in DOMAIN handles : handles[h].name = n})

\* Job discovery throws out of loadJobs, and so out of initQueues.
DiscoveryThrows == cfg.dirReadable /\ cfg.fileThrows = Undefined

\* C1: with a job discovery that does not throw, from an empty cache, any
\* number N >= 1 of reads of queues[prop] (and no direct initQueues() call)
\* runs loadJobs exactly once and constructs exactly one handle for each
\* configured queue name, in every configuration, the empty and the absent
\* queue list included.
C1_LazyInitOnce ==
  (lookups >= 1 /\ initCalls = 0 /\ ~DiscoveryThrows) =>
    /\ loadJobsCalls = 1
    /\ \A n \in ConfiguredNames : Cardinality(InitHandles(n)) = 1

\* C2: with a job discovery that does not throw, after any sequence of
\* initQueues() calls and reads of queues[prop], every configured queue
\* name has had exactly one handle constructed by initialization and
\* exactly one process() call.
C2_InitOnceGuard ==
  (lookups + initCalls >= 1 /\ ~DiscoveryThrows) =>
    \A n \in ConfiguredNames :
      Cardinality(InitHandles(n)) = 1 /\ ProcessCalls(n) = 1

\* C3: with an empty or absent queue list (and a job discovery that does
\* not throw), the first read of queues[prop] completes initialization
\* with no handle, and every read, the later ones included, returns
\* undefined and constructs no handle.
C3_EmptyQueueList ==
  (Len(cfg.queues) = 0 /\ lookups >= 1 /\ ~DiscoveryThrows) =>
    /\ isInitialized
    /\ lastLookup.val = ValUndefined
    /\ handles = <<>>

\* C4: a delivered envelope whose job name is not in Config.jobs gets one
\* error logged, no instance constructed and no handle call.
C4_UnknownJobNotInstantiated ==
  \A i \in DOMAIN msgs :
    (msgs[i].deliveries > 0 /\ ~msgs[i].known) =>
      /\ msgs[i].errors = 1
      /\ msgs[i].instances = 0
      /\ msgs[i].handleCalls = 0

C4_Witness ==
  \E i \in DOMAIN msgs :
    /\ msgs[i].deliveries > 0 /\ ~msgs[i].known
    /\ msgs[i].phase = "returned"
    /\ ConfigJobs # <<>>

\* C5: for a delivered envelope whose job name is not in Config.jobs the
\* callback gives the done signal, so the message is finished, not left
\* active, and its consumer is free again.
C5_UnknownJobDone ==
  \A i \in DOMAIN msgs :
    (msgs[i].deliveries > 0 /\ ~msgs[i].known) =>
      /\ Len(msgs[i].dones) = 1
      /\ msgs[i].state = "completed"
      /\ ~Busy(msgs[i].by)

\* C6: whenever handle has thrown, whatever the value, done has been called
\* once with that value and the transport has taken it as a failed attempt.
C6_ThrowSignalsFailure ==
  \A i \in DOMAIN msgs :
    msgs[i].outcome.kind = "throw" =>
      /\ msgs[i].dones = <<msgs[i].outcome.val>>
      /\ msgs[i].state \in {"waiting", "failed"}

C8_FalseMarksFailed ==
  \A i \in DOMAIN msgs :
    msgs[i].outcome = [kind |-> "return", val |-> "false"] =>
      msgs[i].state = "failed"

\* C9: every dispatch call has made exactly one add call, on the handle it
\* constructed for the instance's queueName (an ad-hoc handle of its own),
\* with the data {job: the instance's class name, payload: the payload}.
C9_DispatchEnvelope ==
  \A i \in DOMAIN dispatches :
    LET d == dispatches[i]
    IN /\ Len(d.adds) = 1
       /\ d.adds[1].queue = d.queue
       /\ handles[d.queue].name = d.job.queueName
       /\ ~handles[d.queue].shared
       /\ \A j \in DOMAIN dispatches : j # i => dispatches[j].queue # d.queue
       /\ d.adds[1].data = [job |-> ClassName(d.job.cls), payload |-> d.payload]

C9_Witness ==
  \E i \in DOMAIN dispatches :
    /\ dispatches[i].state = "resolved"
    /\ dispatches[i].payload = "string"
    /\ dispatches[i].job.queueName = "emails"
    /\ \E h \in DOMAIN handles : handles[h].shared

C12_ScopedRelease ==
  \A i \in DOMAIN dispatches :
    dispatches[i].state \in {"resolved", "rejected"} =>
      handles[dispatches[i].queue].closed

\* C13: every dispatchNow(payload) call has called handle once, with that
\* payload, and settles as handle does: resolved to the value handle
\* returned (true, false), rejected with the value handle threw; and the
\* steps of a dispatchNow call construct no handle, make no add call and
\* submit no message.
C13_DispatchNowBypasses ==
  /\ [](\A i \in DOMAIN nowCalls :
          LET c == nowCalls[i]
          IN /\ c.handleCalls = 1
             /\ c.handleArg = c.payload
             /\ c.outcome.kind = "none" => c.state = "handling"
             /\ c.outcome.kind = "return" =>
                  c.state = "resolved" /\ c.result = c.outcome.val
             /\ c.outcome.kind = "throw" =>
                  c.state = "rejected" /\ c.result = c.outcome.val)
  /\ [][nowCalls' # nowCalls =>
          UNCHANGED <<handles, dispatches, msgs, queueMap>>]_vars

C13_Witness ==
  /\ Len(nowCalls) = 1
  /\ nowCalls[1].outcome = [kind |-> "return", val |-> "false"]
  /\ nowCalls[1].state = "resolved" /\ nowCalls[1].result = "false"
  /\ Len(dispatches) = 1 /\ dispatches[1].state = "resolved"
  /\ Len(handles) = 1 /\ Len(msgs) = 1

\* The handles of queue name n that are constructed and not closed.
OpenHandles(n) ==
  {h \in DOMAIN handles : handles[h].name = n /\ ~handles[h].closed}

\* C14: in every reachable state at most one handle is open (constructed
\* and not closed) for any queue name.
C14_OneHandlePerName ==
  \A n \in QueueNames : Cardinality(OpenHandles(n)) <= 1

\* The messages of queue n whose handle call is in progress.
InHandling(n) ==
  {i \in DOMAIN msgs :
     msgs[i].queue = n /\ msgs[i].state = "active" /\ msgs[i].phase = "handling"}

\* C15: for every configured queue name at most one message of that queue
\* is in handling at any time, whatever initialization calls and deliveries
\* came before.
C15_PerQueueSerialization ==
  \A n \in ConfiguredNames : Cardinality(InHandling(n)) <= 1

\* A step that leaves class c under its own name in the registry and every
\* other entry as it was.
StoredUnderOwnName(c) ==
  /\ DOMAIN ConfigJobs' = DOMAIN ConfigJobs \cup {ClassName(c)}
  /\ ConfigJobs'[ClassName(c)] = c
  /\ \A n \in DOMAIN ConfigJobs \ {ClassName(c)} : ConfigJobs'[n] = ConfigJobs[n]

\* C16: every Job.register call, made directly or by a job file as it is
\* loaded, leaves its class under the class's own name, whatever class had
\* that name before, and leaves every other entry unchanged.
C16_RegisterOverwrites ==
  [][/\ (ConfigJobs' # ConfigJobs /\ loadJobsCalls' = loadJobsCalls) =>
          \E c \in ClassIds : StoredUnderOwnName(c)
     /\ (loadJobsCalls' # loadJobsCalls /\ cfg.dirReadable
           /\ FilesExecute(QState)) =>
          \A c \in JobFiles : StoredUnderOwnName(c)]_vars

\* Class 2 is under the name the loaded file registered class 1 under.
C16_Witness ==
  /\ cfg.dirReadable
  /\ loadJobsCalls >= 1
  /\ "ExampleJob" \in DOMAIN ConfigJobs /\ ConfigJobs["ExampleJob"] = 2
  /\ "SendEmailJob" \in DOMAIN ConfigJobs /\ ConfigJobs["SendEmailJob"] = 3

\* C17: whenever the handle of the invoked command has thrown or rejected,
\* whatever the value, the action has resolved (it does not throw the error
\* on), the error is logged in a message naming the command's key, and the
\* process has not crashed.
C17_HandlerErrorContained ==
  cli.outcome.kind = "throw" =>
    /\ cli.result.kind = "resolved"
    /\ \E i \in DOMAIN cli.logs : cli.logs[i] = LogCommandError(cli.argv)
    /\ cli.phase = "done"

\* Job discovery has failed: the directory cannot be read, or one of its
\* files throws as it is loaded.
DiscoveryFails == ~cfg.dirReadable \/ cfg.fileThrows # "none"

\* C18: once initQueues has run (called directly or by a queue lookup) with
\* a failing job discovery, the failure is logged, the classes of the files
\* loaded before it are registered, and every configured queue name has a
\* handle in the cache with a consumer attached.
C18_JobDiscoveryNotFatal ==
  (DiscoveryFails /\ lookups + initCalls >= 1) =>
    /\ loadLog.errors >= 1
    /\ ~loadLog.threw
    /\ cfg.dirReadable => \A c \in JobFiles : ClassName(c) \in DOMAIN ConfigJobs
    /\ \A n \in ConfiguredNames :
         /\ n \in DOMAIN queueMap
         /\ handles[queueMap[n]].consumers >= 1

\* The CLI process ended during boot, before program.parse ran.
CrashedAtBoot == cli.phase = "crashed" /\ cli.argv = Undefined

\* C19: once command discovery has failed (the directory cannot be read, or
\* a file throws as it is loaded), the error is logged, boot goes on to the
\* binding loop and to program.parse, and every command registered before
\* the failure, the built-in ones included, is bound as a subcommand.
C19_CommandDiscoveryNotFatal ==
  cli.discovery.kind \in {"unreadable", "fileThrows"} =>
    /\ \E i \in DOMAIN cli.logs : cli.logs[i] = LogLoadError
    /\ ~CrashedAtBoot
    /\ cli.phase \in {"parse", "handling", "done"} =>
         /\ cli.bound = DOMAIN ConfigCommands
         /\ {CommandKey(1), CommandKey(2)} \subseteq cli.bound

\* C20: the add call of a dispatch holds the values the instance had when
\* dispatch was called (job name, payload, and the options of its delay
\* and attempts, on a handle of its queueName); the job the transport
\* accepts carries them; and no later step, a field write or delay() on
\* the instance included, changes the call or the accepted job.
C20_ReadAtDispatchTime ==
  /\ [](\A i \in DOMAIN dispatches :
          LET d == dispatches[i]
              call == d.adds[1]
          IN /\ handles[call.queue].name = d.job.queueName
             /\ call.data = [job |-> ClassName(d.job.cls), payload |-> d.payload]
             /\ ("delay" \in DOMAIN call.opts) = (d.job.delayInSeconds # 0)
             /\ "delay" \in DOMAIN call.opts =>
                  call.opts["delay"] = 1000 * d.job.delayInSeconds
             /\ ("attempts" \in DOMAIN call.opts) = (d.job.attempts # 0)
             /\ "attempts" \in DOMAIN call.opts =>
                  call.opts["attempts"] = d.job.attempts
             /\ d.msg # 0 =>
                  /\ msgs[d.msg].queue = d.job.queueName
                  /\ msgs[d.msg].job = ClassName(d.job.cls)
                  /\ msgs[d.msg].payload = d.payload
                  /\ d.job.attempts # 0 => msgs[d.msg].limit = d.job.attempts)
  /\ [][\A i \in DOMAIN dispatches :
          /\ dispatches'[i].job = dispatches[i].job
          /\ dispatches'[i].payload = dispatches[i].payload
          /\ dispatches'[i].adds = dispatches[i].adds
          /\ dispatches[i].msg # 0 =>
               /\ dispatches'[i].msg = dispatches[i].msg
               /\ msgs'[dispatches[i].msg] = msgs[dispatches[i].msg]]_vars

\* After a resolved dispatch every one of the three fields of the instance
\* has been changed, the delay through delay().
C20_Witness ==
  \E i \in DOMAIN dispatches :
    LET d == dispatches[i]
    IN /\ d.state = "resolved" /\ d.msg # 0
       /\ jobInst.queueName # d.job.queueName
       /\ jobInst.attempts # d.job.attempts
       /\ jobInst.delayInSeconds # d.job.delayInSeconds
       /\ jobInst.delayCalled /\ ~d.job.delayCalled
       /\ d.job.attempts # 0
       /\ msgs[d.msg].limit = d.job.attempts

C22_CommandRunsOnce ==
  /\ (cli.argv # Undefined /\ cli.argv \in cli.bound) =>
       cli.handleCalls = <<[key |-> cli.argv, args |-> cli.args]>>
  /\ (cli.argv = Undefined \/ cli.argv \notin cli.bound) => cli.handleCalls = <<>>
  /\ cli.phase = "handling" =>
       cli.result.kind = "none" /\ cli.outcome.kind = "none"
  /\ cli.result.kind # "none" => cli.outcome.kind # "none"

C22_Witness ==
  /\ cli.phase = "done"
  /\ cli.argv = "custom" /\ cli.args = <<"name">>
  /\ cli.outcome = [kind |-> "throw", val |-> "Error"]
  /\ Len(cli.handleCalls) = 1
  /\ cli.handleCalls[1].args = <<"name">>

\* Some consumer of message i's queue is free to take it.
Deliverable(i) ==
  \E h \in DOMAIN handles :
    /\ handles[h].consumers > 0
    /\ handles[h].name = msgs[i].queue
    /\ ~Busy(h)

\* A handle call is in progress on queue n (and will terminate).
HandlerRunning(n) ==
  \E j \in DOMAIN msgs :
    msgs[j].queue = n /\ msgs[j].state = "active" /\ msgs[j].phase = "handling"

\* C23: in a worker that has initialized its queues, a waiting job of a
\* registered class on a configured queue can always go on to its handle
\* call: a consumer of its queue is free to take it, or will be once the
\* handle call now running on that queue ends; whatever was delivered on
\* the queue before it.
C23_DispatchedJobProcessed ==
  \A i \in DOMAIN msgs :
    (/\ msgs[i].state = "waiting"
     /\ msgs[i].queue \in DOMAIN queueMap
     /\ msgs[i].job \in DOMAIN ConfigJobs) =>
      Deliverable(i) \/ HandlerRunning(msgs[i].queue)

\* C24: a job dispatched with attempts = n >= 1 is delivered, and so has
\* its handle invoked, at most n times; it is failed for good exactly when
\* its n-th attempt has failed; while fewer have failed, a failure puts it
\* back to wait for a retry; and a failed job is never touched again.
C24_RetriesBounded ==
  /\ [](\A i \in DOMAIN dispatches :
          LET d == dispatches[i]
              n == d.job.attempts
          IN (d.msg # 0 /\ n >= 1) =>
               LET m == msgs[d.msg]
               IN /\ m.deliveries <= n
                  /\ m.made <= n
                  /\ (m.state = "failed") = (m.made = n)
                  /\ (m.phase = "finished" /\ m.outcome.kind = "throw"
                        /\ m.outcome.val = "Error" /\ m.made < n) =>
                       m.state = "waiting")
  /\ [][\A j \in DOMAIN msgs :
          msgs[j].state = "failed" => msgs'[j] = msgs[j]]_vars

\* A job of a class with the default attempts 5, failed after five handle
\* calls that each threw an Error.
C24_Witness ==
  \E i \in DOMAIN dispatches :
    /\ dispatches[i].msg # 0
    /\ dispatches[i].job.attempts = 5
    /\ msgs[dispatches[i].msg].state = "failed"
    /\ msgs[dispatches[i].msg].deliveries = 5
    /\ msgs[dispatches[i].msg].made = 5
    /\ msgs[dispatches[i].msg].outcome = [kind |-> "throw", val |-> "Error"]

\* C25: every delivered message whose callback is not waiting for a handle
\* call has been given exactly one done signal in this delivery and is
\* completed, waiting for its retry or failed; none rests as an active
\* message with nothing running for it.
C25_EveryMessageTerminates ==
  \A i \in DOMAIN msgs :
    (msgs[i].deliveries > 0 /\ msgs[i].phase # "handling") =>
      /\ Len(msgs[i].dones) = 1
      /\ msgs[i].state \in {"completed", "waiting", "failed"}

\* While the handle call of message i is in progress, no other message of
\* its queue is delivered.
HungQueueBlocked ==
  \A i \in DOMAIN msgs, j \in DOMAIN msgs :
    (/\ i # j
     /\ msgs[i].state = "active" /\ msgs[i].phase = "handling"
     /\ msgs'[i] = msgs[i]
     /\ msgs[j].queue = msgs[i].queue) =>
      msgs'[j].deliveries = msgs[j].deliveries

\* While the handle call of message i is in progress, a waiting message j of
\* another configured queue, with nothing of its own queue in the way, has a
\* free consumer to take it.
OtherQueueProceeds ==
  \A i \in DOMAIN msgs, j \in DOMAIN msgs :
    (/\ msgs[i].state = "active" /\ msgs[i].phase = "handling"
     /\ msgs[j].queue # msgs[i].queue
     /\ msgs[j].queue \in DOMAIN queueMap
     /\ msgs[j].state = "waiting"
     /\ \A k \in DOMAIN msgs :
          msgs[k].queue = msgs[j].queue => msgs[k].state # "active") =>
      Deliverable(j)

\* C26: a handle call that never returns on one queue keeps every other
\* message of that queue from being delivered in the process, and keeps no
\* message of a different configured queue from being delivered, handled
\* and completed.
C26_QueueIsolation == []OtherQueueProceeds /\ [][HungQueueBlocked]_vars

\* The isolation half alone.
IsolationOnly == []OtherQueueProceeds
\* A message of 'emails' completed while a handle call on 'default' is
\* still in progress.
IsolationSeen ==
  \E i \in DOMAIN msgs, j \in DOMAIN msgs :
    /\ msgs[i].queue = "default" /\ msgs[i].state = "active"
    /\ msgs[i].phase = "handling"
    /\ msgs[j].queue = "emails" /\ msgs[j].state = "completed"

\* C27: after a handle call has thrown, whatever the value, the consumer
\* callback has not rejected with an exception of its own, and the message
\* no longer occupies its queue's consumer, which is free for the messages
\* delivered after it.
C27_WorkerSurvivesThrow ==
  \A i \in DOMAIN msgs :
    msgs[i].outcome.kind = "throw" =>
      /\ msgs[i].phase # "rejected"
      /\ msgs[i].state # "active"

\* C28: every command instance the run has constructed belongs to the key
\* the run invokes, and there is at most one of them: before a key is
\* invoked none is constructed, and no command with another key ever is.
C28_InstancePerInvocation ==
  /\ Len(cli.instances) <= 1
  /\ \A idx \in DOMAIN cli.instances :
       /\ cli.argv # Undefined
       /\ CommandKey(cli.instances[idx]) = cli.argv

\* C29: in every delivery of a message whose job name is registered the
\* callback has constructed one instance of the registered class, with no
\* constructor argument, and called handle on it once with the envelope's
\* payload; over its deliveries the message has had one new instance each;
\* for an unregistered name nothing is constructed or called; and the
\* consumer's steps leave the producer's instance as it was.
C29_FreshInstancePerMessage ==
  /\ [](\A i \in DOMAIN msgs :
          LET m == msgs[i]
          IN /\ (m.deliveries > 0 /\ m.known) =>
                  /\ m.instances = 1
                  /\ m.handleCalls = 1
                  /\ m.built = m.deliveries
                  /\ m.calls = <<[cls |-> ConfigJobs[m.job], ctorArgs |-> <<>>,
                                  arg |-> m.payload]>>
             /\ ~m.known => (m.built = 0 /\ m.calls = <<>>))
  /\ [][(msgs' # msgs /\ dispatches' = dispatches) => jobInst' = jobInst]_vars

\* A job dispatched with a payload by an instance with attempts 5, handled
\* five times, each time on an instance of its own.
C29_Witness ==
  \E i \in DOMAIN dispatches :
    /\ dispatches[i].msg # 0
    /\ LET m == msgs[dispatches[i].msg]
       IN /\ m.deliveries = 5 /\ m.built = 5
          /\ m.calls = <<[cls |-> 3, ctorArgs |-> <<>>, arg |-> "string"]>>
          /\ m.phase = "handling"

InitRegistry ==
  /\ Init
  /\ cfg.queues = <<"default">>
  /\ cfg.dirReadable
  /\ cfg.fileThrows = "none"
  /\ cfg.optAttempts = 0

NextRegistry ==
  \/ \E prop \in QueueNames : Lookup(prop)
  \/ \E c \in ClassIds : Register(c)
  \/ Construct(1, "default", 0, 1)
  \/ \E p \in Payloads : DispatchCall(p)
  \/ \E i \in DOMAIN dispatches, ok \in BOOLEAN : AddSettles(i, ok)
  \/ \E p \in Payloads : DispatchNowCall(p)
  \/ \E i \in DOMAIN nowCalls, o \in Outcomes : NowSettles(i, o)
  \/ \E i \in DOMAIN msgs, h \in DOMAIN handles : Deliver(i, h)
  \/ \E i \in DOMAIN msgs, o \in Outcomes : HandleSettles(i, o)

SpecRegistry == InitRegistry /\ [][NextRegistry]_vars

\* Every entry stays, and one that changes holds a class of that name.
EntriesKept ==
  /\ DOMAIN ConfigJobs \subseteq DOMAIN ConfigJobs'
  /\ \A n \in DOMAIN ConfigJobs :
       ConfigJobs'[n] # ConfigJobs[n] => ClassName(ConfigJobs'[n]) = n

\* A step of dispatch, dispatchNow or message consumption.
JobStep == dispatches' # dispatches \/ nowCalls' # nowCalls \/ msgs' # msgs

\* C31 as stated: the registry changes in no step of dispatch, dispatchNow,
\* queue lookup or message consumption, and in every step each entry stays
\* unless a class of the same name replaces it.
C31_OnlyRegisterWrites ==
  [][/\ (JobStep \/ lookups' # lookups) => ConfigJobs' = ConfigJobs
     /\ EntriesKept]_vars

\* C31, amended: the registry changes in no step of dispatch, dispatchNow
\* or message consumption; a queue lookup changes it only when the cache is
\* empty, and then only by the register calls of the job files it loads;
\* and in every step each entry stays unless a class of the same name
\* replaces it.
C31_RegistryFrame ==
  [][/\ JobStep => ConfigJobs' = ConfigJobs
     /\ (lookups' # lookups /\ ConfigJobs' # ConfigJobs) =>
          /\ queueMap = <<>>
          /\ \A c \in JobFiles : StoredUnderOwnName(c)
     /\ EntriesKept]_vars

\* After a lookup that loaded the job file, a dispatch, a dispatchNow call
\* and a handled message, the registry holds what was registered: the
\* file's ExampleJob replaced by a later registration, and SendEmailJob.
C31_Witness ==
  /\ lookups >= 1 /\ loadJobsCalls >= 1
  /\ DOMAIN ConfigJobs = {"ExampleJob", "SendEmailJob"}
  /\ ConfigJobs["ExampleJob"] = 2
  /\ \E i \in DOMAIN dispatches : dispatches[i].state = "resolved"
  /\ \E i \in DOMAIN nowCalls : nowCalls[i].state # "handling"
  /\ \E i \in DOMAIN msgs : msgs[i].phase = "finished"

\* The handles the cache holds.
CachedHandles == {queueMap[n] : n \in DOMAIN queueMap}

\* C32: a step of dispatch leaves the cache, the initialized flag, the
\* count of discovery runs and the registry as they were and attaches no
\* consumer; the handle a dispatch uses is not in the cache and has no
\* consumer; and in a process that never initialized, whatever it
\* dispatched, no handle has a consumer and no message is delivered.
C32_DispatchLeavesWorkerState ==
  /\ [](/\ \A i \in DOMAIN dispatches :
             /\ dispatches[i].queue \notin CachedHandles
             /\ handles[dispatches[i].queue].consumers = 0
        /\ loadJobsCalls = 0 =>
             /\ queueMap = <<>> /\ ~isInitialized
             /\ \A h \in DOMAIN handles : handles[h].consumers = 0
             /\ \A i \in DOMAIN msgs : msgs[i].deliveries = 0)
  /\ [][dispatches' # dispatches =>
          /\ UNCHANGED <<queueMap, isInitialized, loadJobsCalls, ConfigJobs>>
          /\ \A h \in DOMAIN handles :
               handles'[h].consumers = handles[h].consumers
          /\ \A h \in DOMAIN handles' \ DOMAIN handles :
               handles'[h].consumers = 0]_vars

\* A process with two cached queues and their consumers dispatches to
\* 'emails': the job waits on 'emails', the cache still holds the two
\* handles of the initialization and the dispatch's own handle is closed.
C32_Witness ==
  /\ isInitialized /\ loadJobsCalls = 1
  /\ DOMAIN queueMap = {"default", "emails"}
  /\ \E i \in DOMAIN dispatches :
       /\ dispatches[i].state = "resolved"
       /\ dispatches[i].queue \notin CachedHandles
       /\ handles[dispatches[i].queue].name = "emails"
       /\ handles[dispatches[i].queue].closed
       /\ msgs[dispatches[i].msg].queue = "emails"

\* C33: in every delivery of every message the callback has called done at
\* most once: with no argument only after handle resolved, with the thrown
\* value only after handle threw, never one after the other; and before
\* handle has settled it has not called done at all.
C33_AtMostOneDone ==
  \A i \in DOMAIN msgs :
    LET m == msgs[i]
    IN /\ Len(m.dones) <= 1
       /\ m.outcome.kind = "none" => m.dones = <<>>
       /\ m.outcome.kind = "return" => m.dones \in {<<>>, <<NoArg>>}
       /\ m.outcome.kind = "throw" => m.dones \in {<<>>, <<m.outcome.val>>}

\* A third delivery that ended, as the two before it, with one done(error).
C33_Witness ==
  \E i \in DOMAIN msgs :
    /\ msgs[i].deliveries = 3 /\ msgs[i].made = 3
    /\ msgs[i].dones = <<"string">>
    /\ msgs[i].state = "waiting"

\* Class c is the one the registry holds under c's name: c was registered
\* and no class of the same name after it.
RegisteredLast(c) ==
  ClassName(c) \in DOMAIN ConfigJobs /\ ConfigJobs[ClassName(c)] = c

\* C34: the job name a dispatch writes into the envelope, and the accepted
\* message carries, is the name of the instance's class; a delivery of the
\* message made while that class is the one registered under its name
\* resolves to that very class and goes on to its handle; and whatever the
\* registry holds, a constructed job can be dispatched and a pending add
\* can succeed.
C34_NameRoundTrip ==
  /\ [](/\ \A i \in DOMAIN dispatches :
             LET d == dispatches[i]
             IN /\ d.adds[1].data.job = ClassName(d.job.cls)
                /\ d.msg # 0 => msgs[d.msg].job = ClassName(d.job.cls)
                /\ d.state = "adding" => ENABLED AddSettles(i, TRUE)
        /\ (jobInst.cls # 0 /\ Len(dispatches) < MaxDispatches) =>
             ENABLED DispatchCall(Undefined))
  /\ [][\A i \in DOMAIN dispatches :
          LET d == dispatches[i]
          IN (/\ d.msg # 0
              /\ dispatches' = dispatches
              /\ msgs'[d.msg].deliveries = msgs[d.msg].deliveries + 1
              /\ RegisteredLast(d.job.cls)) =>
               /\ msgs'[d.msg].known
               /\ msgs'[d.msg].cls = d.job.cls
               /\ msgs'[d.msg].phase = "handling"]_vars

\* An ExampleJob of lark-jobs, dispatched and then delivered in a process
\* whose registry holds that class and SendEmailJob, is in its own handle.
C34_Witness ==
  \E i \in DOMAIN dispatches :
    /\ dispatches[i].job.cls = 1
    /\ dispatches[i].msg # 0
    /\ DOMAIN ConfigJobs = {"ExampleJob", "SendEmailJob"}
    /\ RegisteredLast(1)
    /\ msgs[dispatches[i].msg].cls = 1
    /\ msgs[dispatches[i].msg].phase = "handling"
    /\ msgs[dispatches[i].msg].payload = "string"

\* A process that reads and writes properties of `queues` and calls
\* initQueues().
NextCache ==
  \/ \E prop \in QueueNames : Lookup(prop)
  \/ CallInitQueues
  \/ \E prop \in QueueNames, v \in SetValues : QueueSet(prop, v)

SpecCache == Init /\ [][NextCache]_vars

\* C35: every assignment to a property of `queues` of a value that is not a
\* Queue instance has thrown and has left the cache as it was, one of a
\* Queue instance has not thrown; and every value the cache holds is a
\* Queue instance.
C35_CacheHoldsOnlyQueues ==
  /\ [](/\ \A n \in DOMAIN queueMap : queueMap[n] \in DOMAIN handles
        /\ \A i \in DOMAIN sets : sets[i].threw = (sets[i].value # "Queue"))
  /\ [][(sets' # sets /\ sets'[Len(sets')].value # "Queue") =>
          UNCHANGED <<queueMap, handles>>]_vars

\* With 'default' cached by the initialization, an assignment of a plain
\* object to queues.emails threw and the cache holds 'default' alone.
C35_Witness ==
  /\ isInitialized
  /\ DOMAIN queueMap = {"default"}
  /\ sets = <<[prop |-> "emails", value |-> "object", threw |-> TRUE]>>

\* The job:add command run in a project whose jobs directory other hands
\* write to as well.
NextJobAdd ==
  \/ \E f \in {"EmailJob.ts", "ReportJob.ts"} : JobFileAppears(f)
  \/ \E arg \in JobNameArgs, answer \in JobNameAnswers, writeOk \in BOOLEAN :
       JobAdd(arg, answer, writeOk)

SpecJobAdd == Init /\ [][NextJobAdd]_vars

\* C36: a run of job:add's handle that was given no job name, as argument
\* or at the prompt, or whose target file existed, returned false and left
\* the directory as it was; a run returned true only with its target file
\* absent before and holding the generated content after, every other file
\* as before; and no step changes the content of a file that exists.
C36_JobAddNeverOverwrites ==
  /\ [](\A i \in DOMAIN jobAdd.runs :
          LET r == jobAdd.runs[i]
          IN /\ (r.name = Undefined \/ JobFileName(r.name) \in DOMAIN r.before) =>
                  r.result = "false" /\ r.after = r.before
             /\ r.result = "true" =>
                  /\ r.name # Undefined
                  /\ JobFileName(r.name) \notin DOMAIN r.before
                  /\ DOMAIN r.after = DOMAIN r.before \cup {JobFileName(r.name)}
                  /\ r.after[JobFileName(r.name)] = JobFileContent(r.name)
                  /\ \A f \in DOMAIN r.before : r.after[f] = r.before[f]
             /\ r.result \in {"true", "false"})
  /\ [][\A f \in DOMAIN jobAdd.files :
          f \in DOMAIN jobAdd.files' /\ jobAdd.files'[f] = jobAdd.files[f]]_vars

\* `job:add email` wrote EmailJob.ts; `job:add Email` after it, with the
\* disk writable, returned false and the file is the first run's.
C36_Witness ==
  /\ Len(jobAdd.runs) = 2
  /\ jobAdd.runs[1].name = "email" /\ jobAdd.runs[1].result = "true"
  /\ jobAdd.runs[2].name = "Email" /\ jobAdd.runs[2].result = "false"
  /\ jobAdd.runs[2].writable
  /\ jobAdd.files["EmailJob.ts"] = JobFileContent("email")

====
